---------------------------- MODULE Spec2Model ----------------------------
(* Model of the ESP32 pinout viewer (PinoutApp in Pinout_GUI.py): the      *)
(* navigation history, the highlight list, the arrow indicators, the info  *)
(* panel and the back/forward buttons, over the static pin dataset of      *)
(* esp32_pin_data.py.  Python lists are sequences; Python indices are kept *)
(* 0-based (history_index = -1 for "no entry"), so list[i] is PyGet(l, i). *)
EXTENDS Integers, Sequences, FiniteSets, TLC

(* ---------------------------- pin.py --------------------------------- *)
(* The Pin dataclass: name, functions, pin_type, note (default "").      *)
(* The en dashes of the function names are written as ASCII hyphens.     *)
Pin(name, functions, pin_type, note) ==
    [name |-> name, functions |-> functions, pin_type |-> pin_type, note |-> note]

(* ------------------------ esp32_pin_data.py -------------------------- *)
(* ESP32PinData._initialize_pins: the dict literal, as the sequence of   *)
(* its (key, value) items in insertion order.                            *)
InitializePins ==
    <<
      <<"GPIO0", Pin("GPIO0", <<"Boot button", "ADC2 -CH1-", "PWM">>, "Input/Output", "Pull-down during boot to flash")>>,
      <<"GPIO1", Pin("GPIO1 (TX0)", <<"UART0 TX", "PWM">>, "Input/Output", "Used for UART logging")>>,
      <<"GPIO2", Pin("GPIO2", <<"ADC2 -CH2-", "PWM">>, "Input/Output", "Must be low to enter boot mode")>>,
      <<"GPIO3", Pin("GPIO3 (RX0)", <<"UART0 RX", "PWM">>, "Input/Output", "Used for UART logging")>>,
      <<"GPIO4", Pin("GPIO4", <<"ADC2 -CH0-", "PWM">>, "Input/Output", "")>>,
      <<"GPIO5", Pin("GPIO5", <<"VSPI -SS-", "PWM">>, "Input/Output", "Must be high during boot")>>,
      <<"GPIO6", Pin("GPIO6", <<"Integrated SPI Flash SCK">>, "Internal (do not use)", "Connected to SPI flash; using will cause boot failure")>>,
      <<"GPIO7", Pin("GPIO7", <<"Integrated SPI Flash SD0">>, "Internal (do not use)", "Connected to SPI flash; using will cause boot failure")>>,
      <<"GPIO8", Pin("GPIO8", <<"Integrated SPI Flash SD1">>, "Internal (do not use)", "Connected to SPI flash; using will cause boot failure")>>,
      <<"GPIO9", Pin("GPIO9", <<"Integrated SPI Flash SD2">>, "Internal (do not use)", "Connected to SPI flash; using will cause boot failure")>>,
      <<"GPIO10", Pin("GPIO10", <<"Integrated SPI Flash SD3">>, "Internal (do not use)", "Connected to SPI flash; using will cause boot failure")>>,
      <<"GPIO11", Pin("GPIO11", <<"Integrated SPI Flash CMD">>, "Internal (do not use)", "Connected to SPI flash; using will cause boot failure")>>,
      <<"GPIO12", Pin("GPIO12", <<"ADC2 -CH5-", "HSPI -MISO-", "PWM">>, "Input only", "Must be low during boot &  , Only Digital if WiFi is used")>>,
      <<"GPIO13", Pin("GPIO13", <<"ADC2 -CH4-", "HSPI -MOSI-", "PWM">>, "Input/Output", "Only Digital if WiFi is used")>>,
      <<"GPIO14", Pin("GPIO14", <<"ADC2 -CH6-", "HSPI -CLK-", "PWM">>, "Input/Output", "Only Digital if WiFi is used")>>,
      <<"GPIO15", Pin("GPIO15", <<"ADC2 -CH3-", "HSPI -SS-", "PWM">>, "Input/Output", "Must be low during boot &  , Only Digital if WiFi is used")>>,
      <<"GPIO16", Pin("GPIO16", <<"UART2 -RX-", "PWM">>, "Input/Output", "")>>,
      <<"GPIO17", Pin("GPIO17", <<"UART2 -TX-", "PWM">>, "Input/Output", "")>>,
      <<"GPIO18", Pin("GPIO18", <<"VSPI -CLK-", "PWM">>, "Input/Output", "")>>,
      <<"GPIO19", Pin("GPIO19", <<"VSPI -MISO-", "PWM">>, "Input/Output", "")>>,
      <<"GPIO21", Pin("GPIO21", <<"I2C -SDA-", "PWM">>, "Input/Output", "")>>,
      <<"GPIO22", Pin("GPIO22", <<"I2C -SCL-", "PWM">>, "Input/Output", "")>>,
      <<"GPIO23", Pin("GPIO23", <<"VSPI -MOSI-", "PWM">>, "Input/Output", "")>>,
      <<"GPIO25", Pin("GPIO25", <<"DAC1", "ADC2 -CH8-", "PWM">>, "Input/Output", "Only Digital if WiFi is used")>>,
      <<"GPIO26", Pin("GPIO26", <<"DAC2", "ADC2 -CH9-", "PWM">>, "Input/Output", "Only Digital if WiFi is used")>>,
      <<"GPIO27", Pin("GPIO27", <<"ADC2 -CH7-", "PWM">>, "Input/Output", "Only Digital if WiFi is used")>>,
      <<"GPIO32", Pin("GPIO32", <<"ADC1 -CH4-", "PWM">>, "Input/Output", "")>>,
      <<"GPIO33", Pin("GPIO33", <<"ADC1 -CH5-", "PWM">>, "Input/Output", "")>>,
      <<"GPIO34", Pin("GPIO34", <<"ADC1 -CH6-">>, "Input only", "")>>,
      <<"GPIO35", Pin("GPIO35", <<"ADC1 -CH7-">>, "Input only", "")>>,
      <<"GPIO36", Pin("GPIO36 (VP)", <<"ADC1 -CH0-">>, "Input only", "")>>,
      <<"GPIO39", Pin("GPIO39 (VN)", <<"ADC1 -CH3-">>, "Input only", "")>>,
      <<"EN", Pin("EN (Enable)", <<"Reset">>, "Input", "Active high to enable chip")>>,
      <<"VIN", Pin("VIN", <<"Power">>, "Power", "Typically 5V input")>>,
      <<"3V3", Pin("3.3V", <<"Power">>, "Power", "3.3V output/input")>>,
      <<"GND2", Pin("GND", <<"Ground">>, "Power", "")>>,
      <<"GND3", Pin("GND", <<"Ground">>, "Power", "")>>,
      <<"GND1", Pin("GND", <<"Ground">>, "Power", "")>>
    >>

i2c_pins ==
    <<"GPIO21", "GPIO22">>

adc_pins ==
    <<"GPIO32", "GPIO33", "GPIO34", "GPIO35", "GPIO36", "GPIO39", "GPIO25", "GPIO26", "GPIO27", "GPIO12", "GPIO13", "GPIO14", "GPIO15">>

spi_pins ==
    <<"GPIO18", "GPIO19", "GPIO23", "GPIO5", "GPIO12", "GPIO13", "GPIO14", "GPIO15">>

pwm_pins ==
    <<"GPIO0", "GPIO1", "GPIO2", "GPIO3", "GPIO4", "GPIO5", "GPIO12", "GPIO13", "GPIO14", "GPIO15", "GPIO16", "GPIO17", "GPIO18", "GPIO19", "GPIO21", "GPIO22", "GPIO23", "GPIO25", "GPIO26", "GPIO27", "GPIO32", "GPIO33">>

power_pins ==
    <<"3V3", "VIN", "GND1", "GND2", "GND3">>

(* The characters of every identifier used as a pin id, as code points:  *)
(* Python compares strings code point by code point.                     *)
CodePoints ==
    "GPIO0" :> <<71, 80, 73, 79, 48>> @@
    "GPIO1" :> <<71, 80, 73, 79, 49>> @@
    "GPIO2" :> <<71, 80, 73, 79, 50>> @@
    "GPIO3" :> <<71, 80, 73, 79, 51>> @@
    "GPIO4" :> <<71, 80, 73, 79, 52>> @@
    "GPIO5" :> <<71, 80, 73, 79, 53>> @@
    "GPIO6" :> <<71, 80, 73, 79, 54>> @@
    "GPIO7" :> <<71, 80, 73, 79, 55>> @@
    "GPIO8" :> <<71, 80, 73, 79, 56>> @@
    "GPIO9" :> <<71, 80, 73, 79, 57>> @@
    "GPIO10" :> <<71, 80, 73, 79, 49, 48>> @@
    "GPIO11" :> <<71, 80, 73, 79, 49, 49>> @@
    "GPIO12" :> <<71, 80, 73, 79, 49, 50>> @@
    "GPIO13" :> <<71, 80, 73, 79, 49, 51>> @@
    "GPIO14" :> <<71, 80, 73, 79, 49, 52>> @@
    "GPIO15" :> <<71, 80, 73, 79, 49, 53>> @@
    "GPIO16" :> <<71, 80, 73, 79, 49, 54>> @@
    "GPIO17" :> <<71, 80, 73, 79, 49, 55>> @@
    "GPIO18" :> <<71, 80, 73, 79, 49, 56>> @@
    "GPIO19" :> <<71, 80, 73, 79, 49, 57>> @@
    "GPIO21" :> <<71, 80, 73, 79, 50, 49>> @@
    "GPIO22" :> <<71, 80, 73, 79, 50, 50>> @@
    "GPIO23" :> <<71, 80, 73, 79, 50, 51>> @@
    "GPIO25" :> <<71, 80, 73, 79, 50, 53>> @@
    "GPIO26" :> <<71, 80, 73, 79, 50, 54>> @@
    "GPIO27" :> <<71, 80, 73, 79, 50, 55>> @@
    "GPIO32" :> <<71, 80, 73, 79, 51, 50>> @@
    "GPIO33" :> <<71, 80, 73, 79, 51, 51>> @@
    "GPIO34" :> <<71, 80, 73, 79, 51, 52>> @@
    "GPIO35" :> <<71, 80, 73, 79, 51, 53>> @@
    "GPIO36" :> <<71, 80, 73, 79, 51, 54>> @@
    "GPIO39" :> <<71, 80, 73, 79, 51, 57>> @@
    "EN" :> <<69, 78>> @@
    "VIN" :> <<86, 73, 78>> @@
    "3V3" :> <<51, 86, 51>> @@
    "GND2" :> <<71, 78, 68, 50>> @@
    "GND3" :> <<71, 78, 68, 51>> @@
    "GND1" :> <<71, 78, 68, 49>> @@
    "GPIO20" :> <<71, 80, 73, 79, 50, 48>>

(* ------------------------- Python primitives -------------------------- *)
(* list[i] with Python's indexing: a negative i counts from the end.      *)
PyGet(list, i) == IF i < 0 THEN list[Len(list) + i + 1] ELSE list[i + 1]

(* list[:n] for n >= 0.                                                   *)
PySliceTo(list, n) == SubSeq(list, 1, IF n < Len(list) THEN n ELSE Len(list))

ToSet(list) == {list[i] : i \in 1..Len(list)}

(* A function as an explicit table, so that it is computed once.          *)
Table(f) == f @@ f

(* a < b for two strings given by their code points.                      *)
RECURSIVE CodesLess(_, _)
CodesLess(a, b) ==
    IF b = <<>> THEN FALSE
    ELSE IF a = <<>> THEN TRUE
    ELSE IF Head(a) # Head(b) THEN Head(a) < Head(b)
    ELSE CodesLess(Tail(a), Tail(b))

StrLess(s, t) == CodesLess(CodePoints[s], CodePoints[t])

(* pin_id.startswith('GPIO')                                              *)
StartsWithGPIO(pin_id) ==
    LET c == CodePoints[pin_id]
    IN  Len(c) >= 4 /\ SubSeq(c, 1, 4) = <<71, 80, 73, 79>>

(* sorted(list): insertion of each element after the last one that is     *)
(* not greater than it (stable).                                          *)
RECURSIVE InsertSorted(_, _)
InsertSorted(x, list) ==
    IF list = <<>> THEN <<x>>
    ELSE IF StrLess(x, Head(list)) THEN <<x>> \o list
    ELSE <<Head(list)>> \o InsertSorted(x, Tail(list))

RECURSIVE Sorted(_)
Sorted(list) ==
    IF list = <<>> THEN <<>>
    ELSE InsertSorted(list[Len(list)], Sorted(SubSeq(list, 1, Len(list) - 1)))

(* ----------------- esp32_pin_data.py, derived members ----------------- *)
(* The keys of a table that lost its last entry.                          *)
PinKeys_DropLast ==
    Table([i \in 1..(Len(InitializePins) - 1) |-> InitializePins[i][1]])

(* list(self.pins.keys())                                                 *)
PinKeys == Table([i \in 1..Len(InitializePins) |-> InitializePins[i][1]])

(* self.pins.get(pin_id): the Pin, or None                                *)
None == [name |-> "None"]

PinsGet(pin_id) ==
    IF \E i \in 1..Len(InitializePins) : InitializePins[i][1] = pin_id
    THEN InitializePins[CHOOSE i \in 1..Len(InitializePins) :
                            InitializePins[i][1] = pin_id][2]
    ELSE None

(* [pin_id for pin_id, pin in self.pins.items() if pin.pin_type == t]     *)
PinsOfType(t) == SelectSeq(PinKeys, LAMBDA k : PinsGet(k).pin_type = t)

input_only_pins == PinsOfType("Input only")

in_out_pins == PinsOfType("Input/Output")

get_pin_category(pin_id) ==
    IF pin_id \in ToSet(i2c_pins) THEN "i2c"
    ELSE IF pin_id \in ToSet(adc_pins) THEN "adc"
    ELSE IF pin_id \in ToSet(spi_pins) THEN "spi"
    ELSE IF pin_id \in ToSet(pwm_pins) THEN "pwm"
    ELSE IF pin_id \in ToSet(power_pins) THEN "power"
    ELSE "default"

(* -------------------------- layout_config.py -------------------------- *)
WINDOW_WIDTH == 1500

IMAGE_WIDTH == 300

PIN_BUTTON_WIDTH == 36

(* get_image_position: start_x and end_x of the centred image.            *)
ImageStartX == (WINDOW_WIDTH - IMAGE_WIDTH) \div 2

ImageEndX == (WINDOW_WIDTH + IMAGE_WIDTH) \div 2

(* --------------------------- Pinout_GUI.py ---------------------------- *)
(* _get_pin_positions: the pin ids in the order of the dict literal, and  *)
(* the x coordinate of each button (pin_left or pin_right).  The y        *)
(* coordinates place the buttons vertically and decide nothing.           *)
pin_left == ImageStartX

pin_right == ImageEndX - 35

PinPositions ==
    << <<"GPIO0", pin_right>>, <<"GPIO1", pin_right>>, <<"GPIO2", pin_right>>,
       <<"GPIO3", pin_right>>, <<"GPIO4", pin_right>>, <<"GPIO5", pin_right>>,
       <<"GPIO6", pin_right>>, <<"GPIO7", pin_right>>, <<"GPIO8", pin_right>>,
       <<"GPIO9", pin_left>>, <<"GPIO10", pin_left>>, <<"GPIO11", pin_left>>,
       <<"GPIO12", pin_left>>, <<"GPIO13", pin_left>>, <<"GPIO14", pin_left>>,
       <<"GPIO15", pin_right>>, <<"GPIO16", pin_right>>, <<"GPIO17", pin_right>>,
       <<"GPIO18", pin_right>>, <<"GPIO19", pin_right>>, <<"GPIO21", pin_right>>,
       <<"GPIO22", pin_right>>, <<"GPIO23", pin_right>>, <<"GPIO25", pin_left>>,
       <<"GPIO26", pin_left>>, <<"GPIO27", pin_left>>, <<"GPIO32", pin_left>>,
       <<"GPIO33", pin_left>>, <<"GPIO34", pin_left>>, <<"GPIO35", pin_left>>,
       <<"GPIO36", pin_left>>, <<"GPIO39", pin_left>>, <<"EN", pin_left>>,
       <<"VIN", pin_left>>, <<"GND1", pin_right>>, <<"GND2", pin_right>>,
       <<"GND3", pin_left>>, <<"3V3", pin_left>> >>

(* self.pin_buttons, filled by _create_pin_buttons: its keys in order.    *)
pin_buttons == Table([i \in 1..Len(PinPositions) |-> PinPositions[i][1]])

(* button.x() of the PinButton of pin_id.                                 *)
ButtonX(pin_id) ==
    PinPositions[CHOOSE i \in 1..Len(PinPositions) : PinPositions[i][1] = pin_id][2]

(* self.categories_data of _create_legend: (display name, key).           *)
categories_data ==
    << <<"I2C Pins", "i2c">>, <<"ADC Pins", "adc">>, <<"SPI Pins", "spi">>,
       <<"PWM Pins", "pwm">>, <<"Power Pins", "power">>,
       <<"Input Only Pins", "Input only">>, <<"In/Out Pins", "Input/Output">>,
       <<"Other GPIO", "default">> >>

(* ------------------------------ bounds -------------------------------- *)
(* The history is a Python list and grows without limit; a new view is    *)
(* recorded here only while the list stays within MaxHist entries.        *)
MaxHist == 4

(* The same limit where every legend button is clicked.                   *)
MaxLegendHist == 2

(* The pin buttons clicked, of the 38 the window offers.                  *)
SamplePins == {"GPIO2", "GPIO5"}

(* The legend buttons clicked where the history is explored in depth.     *)
SampleKeys == {"adc", "spi", "default"}

(* A pin id that is no key of the dataset, and a category key that is not *)
(* one of the legend; both reach the handlers only by a direct call.      *)
AbsentPin == "GPIO20"

UnknownKey == "uart"

(* Key events: event.modifiers() and event.key().                         *)
KeyEvents == {<<"Ctrl", "Z">>, <<"Ctrl+Shift", "Z">>, <<"Shift", "Z">>, <<"Ctrl", "Y">>}

(* The widths the content widget takes: its minimum, and a wide window.   *)
Widths == {WINDOW_WIDTH, 1800}

(* The keys the legend offers.                                            *)
LegendKeys == {categories_data[i][2] : i \in 1..Len(categories_data)}

(* The category keys the handlers are given.                              *)
CategoryKeys == LegendKeys \cup {UnknownKey}

(* ------------------------------- state -------------------------------- *)
VARIABLES
    pin_history,          \* list of ('pin', id) / ('category', (key, name))
    history_index,        \* current position in pin_history, -1 when none
    highlighted_buttons,  \* list of the pin ids of the highlighted buttons
    arrow_labels,         \* list of the arrow QLabels shown
    back_enabled,         \* back_button.isEnabled()
    forward_enabled,      \* forward_button.isEnabled()
    info,                 \* what info_layout holds
    content_width,        \* content_widget.width()
    raised,               \* the exception the last handler let escape
    lastOp                \* the handler that ran last, with its arguments

vars == <<pin_history, history_index, highlighted_buttons, arrow_labels,
          back_enabled, forward_enabled, info, content_width, raised, lastOp>>

(* The fields of the PinoutApp object, as one value.                      *)
App ==
    [pin_history |-> pin_history, history_index |-> history_index,
     highlighted_buttons |-> highlighted_buttons, arrow_labels |-> arrow_labels,
     back_enabled |-> back_enabled, forward_enabled |-> forward_enabled,
     info |-> info, content_width |-> content_width, raised |-> raised]

(* History entries.                                                       *)
PinEntry(pin_id) == <<"pin", <<pin_id>>>>

CategoryEntry(category_key, category_name) ==
    <<"category", <<category_key, category_name>>>>

(* Contents of the info panel.                                            *)
Placeholder == [kind |-> "placeholder"]

(* show_pin_info, the widgets built from the Pin: name, type, function    *)
(* tags and note.                                                         *)
PinDetail(pin) ==
    [kind |-> "pin", name |-> pin.name, pin_type |-> pin.pin_type,
     functions |-> pin.functions, note |-> pin.note]

(* _update_navigation_buttons                                             *)
UpdateNavigationButtons(st) ==
    [st EXCEPT !.back_enabled = st.history_index > 0,
               !.forward_enabled = st.history_index < Len(st.pin_history) - 1]

(* _clear_highlights without the final arrow_labels.clear().              *)
ClearHighlights_KeepArrows(st) ==
    [st EXCEPT !.highlighted_buttons = <<>>]

(* _clear_highlights                                                      *)
ClearHighlights(st) ==
    [st EXCEPT !.highlighted_buttons = <<>>, !.arrow_labels = <<>>]

(* RecordView that keeps the forward entries and appends after them.      *)
RecordView_NoTruncate(st, entry) ==
    LET hist == Append(st.pin_history, entry)
    IN  UpdateNavigationButtons(
            [st EXCEPT !.pin_history = hist, !.history_index = Len(hist) - 1])

(* RecordView that skips the append when the entry equals the one the    *)
(* kept history ends with.                                                *)
RecordView_Dedup(st, entry) ==
    LET kept == IF st.history_index < Len(st.pin_history) - 1
                THEN PySliceTo(st.pin_history, st.history_index + 1)
                ELSE st.pin_history
        hist == IF kept # <<>> /\ PyGet(kept, -1) = entry
                THEN kept
                ELSE Append(kept, entry)
    IN  UpdateNavigationButtons(
            [st EXCEPT !.pin_history = hist, !.history_index = Len(hist) - 1])

(* The "if not from_navigation" block shared by show_pin_info and         *)
(* show_category_pins: drop the forward entries, append, move the index   *)
(* to the tail, update the buttons.                                       *)
RecordView(st, entry) ==
    LET kept == IF st.history_index < Len(st.pin_history) - 1
                THEN PySliceTo(st.pin_history, st.history_index + 1)
                ELSE st.pin_history
        hist == Append(kept, entry)
    IN  UpdateNavigationButtons(
            [st EXCEPT !.pin_history = hist, !.history_index = Len(hist) - 1])

(* show_pin_info that empties the panel for a pin the dataset lacks.      *)
ShowPinInfo_Blank(st, pin_id, from_navigation) ==
    LET cleared  == ClearHighlights(st)
        recorded == IF ~from_navigation
                    THEN RecordView(cleared, PinEntry(pin_id))
                    ELSE cleared
        pin      == PinsGet(pin_id)
    IN  IF pin # None
        THEN [recorded EXCEPT !.info = PinDetail(pin)]
        ELSE [recorded EXCEPT !.info = [kind |-> "blank"]]

(* show_pin_info without the leading _clear_highlights.                   *)
ShowPinInfo_NoClear(st, pin_id, from_navigation) ==
    LET recorded == IF ~from_navigation
                    THEN RecordView(st, PinEntry(pin_id))
                    ELSE st
        pin      == PinsGet(pin_id)
    IN  IF pin # None
        THEN [recorded EXCEPT !.info = PinDetail(pin)]
        ELSE recorded

(* show_pin_info that looks the pin up first and returns at once when    *)
(* the dataset lacks it.                                                  *)
ShowPinInfo_LookupFirst(st, pin_id, from_navigation) ==
    LET pin      == PinsGet(pin_id)
        cleared  == ClearHighlights(st)
        recorded == IF ~from_navigation
                    THEN RecordView(cleared, PinEntry(pin_id))
                    ELSE cleared
    IN  IF pin # None
        THEN [recorded EXCEPT !.info = PinDetail(pin)]
        ELSE st

(* show_pin_info                                                          *)
ShowPinInfo(st, pin_id, from_navigation) ==
    LET cleared  == ClearHighlights(st)
        recorded == IF ~from_navigation
                    THEN RecordView(cleared, PinEntry(pin_id))
                    ELSE cleared
        pin      == PinsGet(pin_id)
    IN  IF pin # None
        THEN [recorded EXCEPT !.info = PinDetail(pin)]
        ELSE recorded

(* The if/elif chain with an explicit 'default' branch and an empty list  *)
(* for any other key.                                                     *)
CategoryPins_UnknownEmpty(category_key) ==
    IF category_key = "i2c" THEN i2c_pins
    ELSE IF category_key = "adc" THEN adc_pins
    ELSE IF category_key = "spi" THEN spi_pins
    ELSE IF category_key = "pwm" THEN pwm_pins
    ELSE IF category_key = "power" THEN power_pins
    ELSE IF category_key = "Input only" THEN input_only_pins
    ELSE IF category_key = "Input/Output" THEN in_out_pins
    ELSE IF category_key = "default"
    THEN LET all_categorized ==
                 ToSet(i2c_pins \o adc_pins \o spi_pins \o pwm_pins \o power_pins
                       \o input_only_pins \o in_out_pins)
         IN  SelectSeq(pin_buttons,
                       LAMBDA pin_id : pin_id \notin all_categorized
                                       /\ StartsWithGPIO(pin_id))
    ELSE <<>>

(* The if/elif chain whose last branch forgets the GPIO prefix test.      *)
CategoryPins_NoPrefix(category_key) ==
    IF category_key = "i2c" THEN i2c_pins
    ELSE IF category_key = "adc" THEN adc_pins
    ELSE IF category_key = "spi" THEN spi_pins
    ELSE IF category_key = "pwm" THEN pwm_pins
    ELSE IF category_key = "power" THEN power_pins
    ELSE IF category_key = "Input only" THEN input_only_pins
    ELSE IF category_key = "Input/Output" THEN in_out_pins
    ELSE LET all_categorized ==
                 ToSet(i2c_pins \o adc_pins \o spi_pins \o pwm_pins \o power_pins
                       \o input_only_pins \o in_out_pins)
         IN  SelectSeq(pin_buttons, LAMBDA pin_id : pin_id \notin all_categorized)

(* The if/elif chain with the two derived lists exchanged.                *)
CategoryPins_SwappedTypes(category_key) ==
    IF category_key = "i2c" THEN i2c_pins
    ELSE IF category_key = "adc" THEN adc_pins
    ELSE IF category_key = "spi" THEN spi_pins
    ELSE IF category_key = "pwm" THEN pwm_pins
    ELSE IF category_key = "power" THEN power_pins
    ELSE IF category_key = "Input only" THEN in_out_pins
    ELSE IF category_key = "Input/Output" THEN input_only_pins
    ELSE LET all_categorized ==
                 ToSet(i2c_pins \o adc_pins \o spi_pins \o pwm_pins \o power_pins
                       \o input_only_pins \o in_out_pins)
         IN  SelectSeq(pin_buttons,
                       LAMBDA pin_id : pin_id \notin all_categorized
                                       /\ StartsWithGPIO(pin_id))

(* show_category_pins, the if/elif chain that picks the pin list.         *)
CategoryPins(category_key) ==
    IF category_key = "i2c" THEN i2c_pins
    ELSE IF category_key = "adc" THEN adc_pins
    ELSE IF category_key = "spi" THEN spi_pins
    ELSE IF category_key = "pwm" THEN pwm_pins
    ELSE IF category_key = "power" THEN power_pins
    ELSE IF category_key = "Input only" THEN input_only_pins
    ELSE IF category_key = "Input/Output" THEN in_out_pins
    ELSE LET all_categorized ==
                 ToSet(i2c_pins \o adc_pins \o spi_pins \o pwm_pins \o power_pins
                       \o input_only_pins \o in_out_pins)
         IN  SelectSeq(pin_buttons,
                       LAMBDA pin_id : pin_id \notin all_categorized
                                       /\ StartsWithGPIO(pin_id))

(* _highlight_button, the arrow it creates: the text, the pin it belongs  *)
(* to and its x position.                                                 *)
Arrow(pin_id, width) ==
    LET x    == ButtonX(pin_id)
        left == 2 * x < width
    IN  [text |-> IF left THEN "points_right" ELSE "points_left",
         pin  |-> pin_id,
         x    |-> IF left THEN x - ((PIN_BUTTON_WIDTH \div 2) + 5)
                  ELSE x + PIN_BUTTON_WIDTH + 5]

(* show_category_pins, the loop "for pin_id in pins": the buttons it      *)
(* highlights, in order, and the arrows _highlight_button creates.        *)
HighlightedOf(pins) ==
    SelectSeq(pins, LAMBDA pin_id : pin_id \in ToSet(pin_buttons))

ArrowsOf(pins, width) ==
    LET lit == HighlightedOf(pins)
    IN  [i \in 1..Len(lit) |-> Arrow(lit[i], width)]

(* The tags built by iterating over pins instead of sorted(pins).         *)
TagsOf_Unsorted(pins) ==
    LET known == SelectSeq(pins, LAMBDA pin_id : PinsGet(pin_id) # None)
    IN  [i \in 1..Len(known) |->
            [pin_id |-> known[i], text |-> PinsGet(known[i]).name]]

(* _display_category_info: one tag per pin of sorted(pins) that the       *)
(* dataset knows, labelled with the pin's name and bound to the pin id.   *)
TagsOf(pins) ==
    LET known == SelectSeq(Sorted(pins), LAMBDA pin_id : PinsGet(pin_id) # None)
    IN  [i \in 1..Len(known) |->
            [pin_id |-> known[i], text |-> PinsGet(known[i]).name]]

(* The dataset and the buttons never change after __init__, so what a     *)
(* category key resolves to is computed once per key (and width).         *)
ResolvedPins == Table([k \in CategoryKeys |-> CategoryPins(k)])

ResolvedHighlights == Table([k \in CategoryKeys |-> HighlightedOf(ResolvedPins[k])])

ResolvedArrows ==
    Table([kw \in CategoryKeys \X Widths |-> ArrowsOf(ResolvedPins[kw[1]], kw[2])])

ResolvedTags == Table([k \in CategoryKeys |-> TagsOf(ResolvedPins[k])])

(* _display_category_info: the header "<name> (<n> pins)" and the tags.   *)
DisplayCategoryInfo(category_key, category_name) ==
    [kind |-> "category", header |-> category_name,
     count |-> Len(ResolvedPins[category_key]),
     tags |-> ResolvedTags[category_key]]

(* show_category_pins without the leading _clear_highlights.              *)
ShowCategoryPins_NoClear(st, category_key, category_name, from_navigation) ==
    LET recorded == IF ~from_navigation
                    THEN RecordView(st, CategoryEntry(category_key, category_name))
                    ELSE st
    IN  [recorded EXCEPT
           !.highlighted_buttons = @ \o ResolvedHighlights[category_key],
           !.arrow_labels =
               @ \o ResolvedArrows[<<category_key, recorded.content_width>>],
           !.info = DisplayCategoryInfo(category_key, category_name)]

(* show_category_pins                                                     *)
ShowCategoryPins(st, category_key, category_name, from_navigation) ==
    LET cleared  == ClearHighlights(st)
        recorded == IF ~from_navigation
                    THEN RecordView(cleared,
                                    CategoryEntry(category_key, category_name))
                    ELSE cleared
    IN  [recorded EXCEPT
           !.highlighted_buttons = @ \o ResolvedHighlights[category_key],
           !.arrow_labels =
               @ \o ResolvedArrows[<<category_key, recorded.content_width>>],
           !.info = DisplayCategoryInfo(category_key, category_name)]

(* A replay that calls the handlers without from_navigation=True.         *)
Replay_Rerecord(st) ==
    LET entry == PyGet(st.pin_history, st.history_index)
        view_type == entry[1]
        data == entry[2]
    IN  IF view_type = "pin" THEN ShowPinInfo(st, data[1], FALSE)
        ELSE IF view_type = "category"
             THEN ShowCategoryPins(st, data[1], data[2], FALSE)
        ELSE st

(* A replay that handles pin entries only.                                *)
Replay_PinsOnly(st) ==
    LET entry == PyGet(st.pin_history, st.history_index)
        view_type == entry[1]
        data == entry[2]
    IN  IF view_type = "pin" THEN ShowPinInfo(st, data[1], TRUE)
        ELSE st

(* The replay of a history entry in _navigate_back / _navigate_forward.   *)
Replay(st) ==
    LET entry == PyGet(st.pin_history, st.history_index)
        view_type == entry[1]
        data == entry[2]
    IN  IF view_type = "pin" THEN ShowPinInfo(st, data[1], TRUE)
        ELSE IF view_type = "category"
             THEN ShowCategoryPins(st, data[1], data[2], TRUE)
        ELSE st

(* _navigate_back guarded by "history_index >= 0".                        *)
NavigateBack_GuardGeq(st) ==
    IF st.history_index >= 0
    THEN UpdateNavigationButtons(
             Replay([st EXCEPT !.history_index = st.history_index - 1]))
    ELSE st

(* _navigate_back that replays the entry before it moves the index.       *)
NavigateBack_ReplayOld(st) ==
    IF st.history_index > 0
    THEN UpdateNavigationButtons(
             [Replay(st) EXCEPT !.history_index = st.history_index - 1])
    ELSE st

(* _navigate_back                                                         *)
NavigateBack(st) ==
    IF st.history_index > 0
    THEN UpdateNavigationButtons(
             Replay([st EXCEPT !.history_index = st.history_index - 1]))
    ELSE st

(* _navigate_forward without the final _update_navigation_buttons.        *)
NavigateForward_NoUpdate(st) ==
    IF st.history_index < Len(st.pin_history) - 1
    THEN Replay([st EXCEPT !.history_index = st.history_index + 1])
    ELSE st

(* _navigate_forward that clears the highlights before its test.          *)
NavigateForward_ClearFirst(st) ==
    IF st.history_index < Len(st.pin_history) - 1
    THEN UpdateNavigationButtons(
             Replay([st EXCEPT !.history_index = st.history_index + 1]))
    ELSE ClearHighlights(st)

(* _navigate_forward that moves the index without replaying the entry.   *)
NavigateForward_NoReplay(st) ==
    IF st.history_index < Len(st.pin_history) - 1
    THEN UpdateNavigationButtons(
             [st EXCEPT !.history_index = st.history_index + 1])
    ELSE st

(* _navigate_forward                                                      *)
NavigateForward(st) ==
    IF st.history_index < Len(st.pin_history) - 1
    THEN UpdateNavigationButtons(
             Replay([st EXCEPT !.history_index = st.history_index + 1]))
    ELSE st

(* keyPressEvent that tests the Control modifier first and not exactly:   *)
(* Ctrl+Shift+Z then takes the back branch.                               *)
KeyPressEvent_LooseControl(st, modifiers, key) ==
    IF modifiers \in {"Ctrl", "Ctrl+Shift"} /\ key = "Z" THEN NavigateBack(st)
    ELSE IF modifiers = "Ctrl+Shift" /\ key = "Z" THEN NavigateForward(st)
    ELSE st

(* keyPressEvent                                                          *)
KeyPressEvent(st, modifiers, key) ==
    IF modifiers = "Ctrl+Shift" /\ key = "Z" THEN NavigateForward(st)
    ELSE IF modifiers = "Ctrl" /\ key = "Z" THEN NavigateBack(st)
    ELSE st

(* mousePressEvent                                                        *)
MousePressEvent(st) ==
    IF st.highlighted_buttons # <<>> THEN ClearHighlights(st) ELSE st

(* ------------------------------ actions ------------------------------- *)
(* The handler that runs, its arguments, and the position and length of   *)
(* the history when it is entered.                                        *)
Op(op, a, b) ==
    [op |-> op, a |-> a, b |-> b,
     index |-> history_index, length |-> Len(pin_history)]

(* The handler ran to completion: the object takes the fields of st.      *)
Commit(st, op) ==
    /\ pin_history' = st.pin_history
    /\ history_index' = st.history_index
    /\ highlighted_buttons' = st.highlighted_buttons
    /\ arrow_labels' = st.arrow_labels
    /\ back_enabled' = st.back_enabled
    /\ forward_enabled' = st.forward_enabled
    /\ info' = st.info
    /\ content_width' = st.content_width
    /\ raised' = st.raised
    /\ lastOp' = op

(* A new view fits the bound on the history.                              *)
CanRecord(max) == history_index + 2 <= max

(* PinoutApp.__init__ and the widgets it creates: empty history, both     *)
(* buttons disabled, the placeholder label in the info panel, the content *)
(* widget at its minimum width.                                           *)
Init ==
    /\ pin_history = <<>>
    /\ history_index = -1
    /\ highlighted_buttons = <<>>
    /\ arrow_labels = <<>>
    /\ back_enabled = FALSE
    /\ forward_enabled = FALSE
    /\ info = Placeholder
    /\ content_width = WINDOW_WIDTH
    /\ raised = "none"
    /\ lastOp = [op |-> "init", a |-> "", b |-> "", index |-> -1, length |-> 0]

(* A pin button is clicked: btn.clicked -> show_pin_info(p).              *)
PinClicked(max) ==
    \E p \in SamplePins :
        /\ CanRecord(max)
        /\ Commit(ShowPinInfo(App, p, FALSE), Op("pin", p, ""))

(* A pin tag of the category list is clicked: pin_btn.clicked ->          *)
(* show_pin_info(p), for a tag the panel shows.                           *)
TagClicked(max) ==
    /\ info.kind = "category"
    /\ \E i \in 1..Len(info.tags) :
        /\ info.tags[i].pin_id \in SamplePins
        /\ CanRecord(max)
        /\ Commit(ShowPinInfo(App, info.tags[i].pin_id, FALSE),
                  Op("pin", info.tags[i].pin_id, "tag"))

(* A legend button is clicked: category_btn.clicked ->                    *)
(* show_category_pins(key, name).                                         *)
CategoryClicked(keys, max) ==
    \E i \in 1..Len(categories_data) :
        /\ categories_data[i][2] \in keys
        /\ CanRecord(max)
        /\ Commit(ShowCategoryPins(App, categories_data[i][2],
                                   categories_data[i][1], FALSE),
                  Op("category", categories_data[i][2], categories_data[i][1]))

(* back_button.clicked -> _navigate_back                                  *)
BackRequested == Commit(NavigateBack(App), Op("back", "", ""))

(* forward_button.clicked -> _navigate_forward                            *)
ForwardRequested == Commit(NavigateForward(App), Op("forward", "", ""))

(* A key is pressed in the window.                                        *)
KeyPressed ==
    \E e \in KeyEvents :
        Commit(KeyPressEvent(App, e[1], e[2]), Op("key", e[1], e[2]))

(* A mouse press reaches the window.                                      *)
MousePressed == Commit(MousePressEvent(App), Op("mouse", "", ""))

(* The triggers the window offers.                                        *)
Next ==
    \/ PinClicked(MaxHist)
    \/ TagClicked(MaxHist)
    \/ CategoryClicked(SampleKeys, MaxHist)
    \/ BackRequested
    \/ ForwardRequested
    \/ KeyPressed
    \/ MousePressed

Spec == Init /\ [][Next]_vars

(* The same triggers, with every button of the legend.                    *)
NextLegend ==
    \/ PinClicked(MaxLegendHist)
    \/ TagClicked(MaxLegendHist)
    \/ CategoryClicked(LegendKeys, MaxLegendHist)
    \/ BackRequested
    \/ ForwardRequested
    \/ MousePressed

SpecLegend == Init /\ [][NextLegend]_vars

(* The window is resized: the scroll area (setWidgetResizable(True))      *)
(* gives the content widget the new width, never below its minimum.  The  *)
(* buttons and the arrows already shown keep their geometry.              *)
Resized ==
    \E w \in Widths :
        Commit([App EXCEPT !.content_width = w], Op("resize", "", ""))

(* The triggers of the legend, in a window that is resized.               *)
NextResize ==
    \/ PinClicked(MaxLegendHist)
    \/ TagClicked(MaxLegendHist)
    \/ CategoryClicked(LegendKeys, MaxLegendHist)
    \/ BackRequested
    \/ ForwardRequested
    \/ MousePressed
    \/ Resized

SpecResize == Init /\ [][NextResize]_vars

(* show_pin_info called directly, also with a pin id the dataset lacks.   *)
ShowPinInfoCalled ==
    \E p \in {"GPIO2", AbsentPin} :
        /\ CanRecord(MaxHist)
        /\ Commit(ShowPinInfo(App, p, FALSE), Op("pin", p, ""))

(* show_category_pins called directly, also with a key the legend lacks.  *)
ShowCategoryPinsCalled ==
    \E k \in {"adc", UnknownKey} :
        /\ CanRecord(MaxHist)
        /\ Commit(ShowCategoryPins(App, k, "Some Pins", FALSE),
                  Op("category", k, "Some Pins"))

(* _clear_highlights called directly.                                     *)
ClearHighlightsCalled == Commit(ClearHighlights(App), Op("clear", "", ""))

(* The handlers as a caller of the class can reach them.                  *)
NextApi ==
    \/ ShowPinInfoCalled
    \/ ShowCategoryPinsCalled
    \/ ClearHighlightsCalled
    \/ BackRequested
    \/ ForwardRequested
    \/ MousePressed

SpecApi == Init /\ [][NextApi]_vars

(* ============================ properties ============================== *)
(* The entry a recording handler appends, from its arguments.             *)
EntryOf(op) ==
    IF op.op = "pin" THEN PinEntry(op.a) ELSE CategoryEntry(op.a, op.b)

(* The pin ids of the tags the info panel lists, in order.                *)
ListedPins == [i \in 1..Len(info.tags) |-> info.tags[i].pin_id]

(* C1: recording a view (a pin or category selected outside navigation)   *)
(* from history H at index i leaves exactly H[0..i] followed by the new   *)
(* entry, and the index at the new tail.                                  *)
C1_RecordViewTruncatesAndAppends ==
    [][lastOp'.op \in {"pin", "category"} =>
          /\ pin_history' =
                 SubSeq(pin_history, 1, history_index + 1) \o <<EntryOf(lastOp')>>
          /\ history_index' = Len(pin_history') - 1]_vars

(* A view recorded two steps back from the tail of a three-entry history, *)
(* as in [A,B,C], back, back, D.                                          *)
C1_Witness ==
    /\ lastOp.op \in {"pin", "category"}
    /\ lastOp.length = 3
    /\ lastOp.index = 0
    /\ Len(pin_history) = 2
    /\ history_index = 1

(* C2: the index stays within -1 .. length-1 and is -1 exactly when the   *)
(* history is empty.                                                      *)
C2_IndexInRange ==
    /\ -1 <= history_index
    /\ history_index < Len(pin_history)
    /\ (history_index = -1) <=> (pin_history = <<>>)

C2_Witness ==
    /\ Len(pin_history) = 3
    /\ history_index = 0
    /\ lastOp.op = "back"
    /\ lastOp.index = 1

(* C3: after every operation the back button is enabled exactly when      *)
(* index > 0 and the forward button exactly when index < length-1; at     *)
(* startup both are disabled.                                             *)
C3_ButtonsFollowIndex ==
    /\ back_enabled <=> (history_index > 0)
    /\ forward_enabled <=> (history_index < Len(pin_history) - 1)
    /\ lastOp.op = "init" => (~back_enabled /\ ~forward_enabled)

C3_Witness ==
    /\ lastOp.op = "back"
    /\ lastOp.index = 2
    /\ back_enabled
    /\ forward_enabled

(* C4: back and forward (by button or by key) never change the history    *)
(* list: the replay does not record the entry again.                      *)
C4_NavigationKeepsHistory ==
    [][lastOp'.op \in {"back", "forward", "key"} =>
          pin_history' = pin_history]_vars

C4_Witness ==
    /\ lastOp.op = "forward"
    /\ lastOp.index = 0
    /\ lastOp.length = 3
    /\ history_index = 1
    /\ Len(pin_history) = 3

(* What the info panel shows for a history entry: the detail of the pin,  *)
(* or the category under its stored display name with its members.        *)
Shows(panel, entry) ==
    IF entry[1] = "pin"
    THEN /\ panel.kind = "pin"
         /\ panel.name = PinsGet(entry[2][1]).name
         /\ panel.pin_type = PinsGet(entry[2][1]).pin_type
    ELSE /\ panel.kind = "category"
         /\ panel.header = entry[2][2]
         /\ {panel.tags[i].pin_id : i \in 1..Len(panel.tags)}
                = ToSet(CategoryPins(entry[2][1]))

ScenarioAfterBack ==
    /\ pin_history = <<PinEntry("GPIO2"), CategoryEntry("adc", "ADC Pins")>>
    /\ lastOp.op = "back"
    /\ lastOp.index = 1

(* C5: back with index > 0 moves the index down by exactly one and shows  *)
(* the entry now at the index; forward with index < length-1 moves it up  *)
(* by exactly one and shows the entry now at the index.  After GPIO2,     *)
(* adc, back the panel shows GPIO2 and forward is enabled; recording      *)
(* GPIO5 then gives [GPIO2, GPIO5] with forward disabled.                 *)
C5_NavigationReplaysEntry ==
    [][/\ (lastOp'.op = "back" /\ history_index > 0) =>
              /\ history_index' = history_index - 1
              /\ Shows(info', pin_history[history_index' + 1])
       /\ (lastOp'.op = "forward" /\ history_index < Len(pin_history) - 1) =>
              /\ history_index' = history_index + 1
              /\ Shows(info', pin_history[history_index' + 1])
       /\ ScenarioAfterBack' =>
              /\ info' = PinDetail(PinsGet("GPIO2"))
              /\ forward_enabled'
       /\ (ScenarioAfterBack /\ lastOp'.op = "pin" /\ lastOp'.a = "GPIO5") =>
              /\ pin_history' = <<PinEntry("GPIO2"), PinEntry("GPIO5")>>
              /\ ~forward_enabled']_vars

C5_Witness ==
    /\ ScenarioAfterBack
    /\ history_index = 0
    /\ info.kind = "pin"
    /\ forward_enabled

(* C6: back at index <= 0 and forward at index >= length-1 raise nothing  *)
(* and leave history, index, highlights, arrows, panel and buttons as     *)
(* they were.                                                             *)
C6_OutOfRangeNavigationIsNoOp ==
    [][(\/ lastOp'.op = "back" /\ history_index <= 0
        \/ lastOp'.op = "forward" /\ history_index >= Len(pin_history) - 1) =>
          /\ raised' = "none"
          /\ UNCHANGED <<pin_history, history_index, highlighted_buttons,
                         arrow_labels, info, back_enabled, forward_enabled>>]_vars

C6_Witness ==
    /\ lastOp.op = "forward"
    /\ lastOp.index = lastOp.length - 1
    /\ lastOp.length = 2
    /\ highlighted_buttons # <<>>

C8_UnknownKeyResolvesEmpty ==
    (lastOp.op = "category" /\ lastOp.a \notin LegendKeys) =>
        /\ raised = "none"
        /\ highlighted_buttons = <<>>
        /\ info.kind = "category"
        /\ info.count = 0
        /\ info.tags = <<>>

(* C8, amended: a category key that is none of the known keys does not    *)
(* fail and resolves as 'default' does: GPIO6 to GPIO11 are highlighted   *)
(* and listed.                                                            *)
C8_UnknownKeyResolvesAsDefault ==
    (lastOp.op = "category" /\ lastOp.a \notin LegendKeys) =>
        /\ raised = "none"
        /\ highlighted_buttons =
               <<"GPIO6", "GPIO7", "GPIO8", "GPIO9", "GPIO10", "GPIO11">>
        /\ info.kind = "category"
        /\ info.count = 6
        /\ ListedPins = <<"GPIO10", "GPIO11", "GPIO6", "GPIO7", "GPIO8", "GPIO9">>

C8_Witness ==
    /\ lastOp.op = "category"
    /\ lastOp.a = UnknownKey
    /\ Len(arrow_labels) = 6

(* The pin ids with the GPIO prefix that are in none of the i2c, adc,     *)
(* spi, pwm and power lists.                                              *)
UnlistedGpio ==
    {p \in ToSet(PinKeys) \cup ToSet(pin_buttons) :
        /\ StartsWithGPIO(p)
        /\ p \notin ToSet(i2c_pins) \cup ToSet(adc_pins) \cup ToSet(spi_pins)
                    \cup ToSet(pwm_pins) \cup ToSet(power_pins)}

(* C9: 'default' resolves to exactly the GPIO-prefixed pins outside the   *)
(* i2c, adc, spi, pwm and power lists; EN, VIN, 3V3 and the GND pins and  *)
(* the members of the five lists never appear.                            *)
C9_DefaultIsUnlistedGpio ==
    (lastOp.op = "category" /\ lastOp.a = "default") =>
        /\ ToSet(highlighted_buttons) = UnlistedGpio
        /\ ToSet(ListedPins) = UnlistedGpio
        /\ info.count = Cardinality(UnlistedGpio)
        /\ ToSet(ListedPins) \cap {"EN", "VIN", "3V3", "GND1", "GND2", "GND3"} = {}
        /\ ToSet(ListedPins) \cap
               (ToSet(i2c_pins) \cup ToSet(adc_pins) \cup ToSet(spi_pins)
                \cup ToSet(pwm_pins) \cup ToSet(power_pins)) = {}

C9_Witness ==
    /\ lastOp.op = "category"
    /\ lastOp.a = "default"
    /\ highlighted_buttons # <<>>
    /\ info.kind = "category"

(* C10 as stated: the input-only category lists the pins of type          *)
(* "Input only", and they are GPIO34, 35, 36, 39, 12 and 15.              *)
C10_InputOnlyWithGpio15 ==
    (lastOp.op = "category" /\ lastOp.a = "Input only") =>
        /\ ToSet(ListedPins) = {p \in ToSet(PinKeys) : PinsGet(p).pin_type = "Input only"}
        /\ ToSet(ListedPins) =
               {"GPIO34", "GPIO35", "GPIO36", "GPIO39", "GPIO12", "GPIO15"}

(* C10, amended: the input-only category lists exactly the pins of type   *)
(* "Input only", and they are GPIO34, 35, 36, 39 and 12.                  *)
C10_InputOnlyPins ==
    (lastOp.op = "category" /\ lastOp.a = "Input only") =>
        /\ ToSet(ListedPins) = {p \in ToSet(PinKeys) : PinsGet(p).pin_type = "Input only"}
        /\ ToSet(ListedPins) = {"GPIO34", "GPIO35", "GPIO36", "GPIO39", "GPIO12"}
        /\ Len(ListedPins) = 5
        /\ ToSet(highlighted_buttons) = ToSet(ListedPins)

C10_Witness ==
    /\ lastOp.op = "category"
    /\ lastOp.a = "Input only"
    /\ Len(highlighted_buttons) = 5
    /\ info.header = "Input Only Pins"

(* The static membership list of an explicit category key.                *)
StaticList(key) ==
    IF key = "i2c" THEN i2c_pins
    ELSE IF key = "adc" THEN adc_pins
    ELSE IF key = "spi" THEN spi_pins
    ELSE IF key = "pwm" THEN pwm_pins
    ELSE power_pins

(* C11: for i2c, adc, spi, pwm and power the panel lists exactly the      *)
(* members of the static list, each once, in lexicographic order of the   *)
(* pin id; for i2c it lists GPIO21, GPIO22.                               *)
C11_ExplicitCategoryListedSorted ==
    (lastOp.op = "category" /\ lastOp.a \in {"i2c", "adc", "spi", "pwm", "power"}) =>
        /\ ToSet(ListedPins) = ToSet(StaticList(lastOp.a))
        /\ Len(ListedPins) = Len(StaticList(lastOp.a))
        /\ \A i \in 1..Len(ListedPins) : \A j \in 1..Len(ListedPins) :
               i < j => StrLess(ListedPins[i], ListedPins[j])
        /\ lastOp.a = "i2c" => ListedPins = <<"GPIO21", "GPIO22">>
        /\ lastOp.a = "power" =>
               ListedPins = <<"3V3", "GND1", "GND2", "GND3", "VIN">>
        /\ lastOp.a = "spi" =>
               ListedPins = <<"GPIO12", "GPIO13", "GPIO14", "GPIO15",
                              "GPIO18", "GPIO19", "GPIO23", "GPIO5">>

C11_Witness ==
    /\ lastOp.op = "category"
    /\ lastOp.a = "spi"
    /\ info.kind = "category"
    /\ Len(info.tags) = 8

(* The last handler was a navigation that passed its test and replayed.   *)
NavigationRan ==
    \/ lastOp.op = "back" /\ lastOp.index > 0
    \/ lastOp.op = "forward" /\ lastOp.index < lastOp.length - 1
    \/ lastOp.op = "key" /\ lastOp.a = "Ctrl" /\ lastOp.b = "Z" /\ lastOp.index > 0
    \/ lastOp.op = "key" /\ lastOp.a = "Ctrl+Shift" /\ lastOp.b = "Z"
           /\ lastOp.index < lastOp.length - 1

(* The current history entry.                                             *)
CurrentEntry == pin_history[history_index + 1]

(* show_category_pins ran last, by a click or by a replay.                *)
CategoryJustShown ==
    \/ lastOp.op = "category"
    \/ NavigationRan /\ CurrentEntry[1] = "category"

(* C12: after a category is shown, by a click or by a replay, the         *)
(* highlighted buttons are exactly the pins the key resolves to, each     *)
(* once, and there is exactly one arrow per highlighted button, its own.  *)
C12_HighlightsAreTheCategory ==
    CategoryJustShown =>
        LET resolved == ToSet(CategoryPins(CurrentEntry[2][1]))
        IN  /\ ToSet(highlighted_buttons) = resolved
            /\ Len(highlighted_buttons) = Cardinality(resolved)
            /\ Len(arrow_labels) = Len(highlighted_buttons)
            /\ \A i \in 1..Len(arrow_labels) :
                   arrow_labels[i].pin = highlighted_buttons[i]

(* A category replayed by back while another category was highlighted.    *)
C12_Witness ==
    /\ lastOp.op = "back"
    /\ lastOp.index = 2
    /\ CurrentEntry[1] = "category"
    /\ pin_history[3][1] = "category"
    /\ pin_history[3][2][1] # CurrentEntry[2][1]
    /\ highlighted_buttons # <<>>

(* C13: while the current history entry is a pin nothing is highlighted;  *)
(* whenever something is highlighted the current entry is a category and  *)
(* the highlighted pins are exactly its members.                          *)
C13_HighlightsOnlyInCategoryView ==
    /\ (history_index >= 0 /\ CurrentEntry[1] = "pin") =>
           (highlighted_buttons = <<>> /\ arrow_labels = <<>>)
    /\ (highlighted_buttons # <<>> \/ arrow_labels # <<>>) =>
           /\ history_index >= 0
           /\ CurrentEntry[1] = "category"
           /\ ToSet(highlighted_buttons) = ToSet(CategoryPins(CurrentEntry[2][1]))

(* A pin tag clicked in a highlighted category list.                      *)
C13_Witness ==
    /\ lastOp.op = "pin"
    /\ lastOp.b = "tag"
    /\ CurrentEntry[1] = "pin"
    /\ pin_history[history_index][1] = "category"
    /\ highlighted_buttons = <<>>

(* The button of the pin sits on the left edge of the diagram.            *)
OnLeftSide(pin_id) == ButtonX(pin_id) = pin_left

(* C14: at every width of the content area, the arrow of a highlighted    *)
(* pin on the left side of the diagram points right and the arrow of a    *)
(* pin on the right side points left.                                     *)
C14_ArrowsPointByDiagramSide ==
    \A i \in 1..Len(arrow_labels) :
        arrow_labels[i].text =
            IF OnLeftSide(arrow_labels[i].pin) THEN "points_right" ELSE "points_left"

(* C15: _clear_highlights always leaves the highlight list and the arrow  *)
(* list empty and touches nothing else, raises nothing, changes nothing   *)
(* when both are already empty, and applied twice gives what it gives     *)
(* applied once.                                                          *)
C15_ClearHighlightsIdempotent ==
    [][/\ lastOp'.op = "clear" =>
              /\ highlighted_buttons' = <<>>
              /\ arrow_labels' = <<>>
              /\ raised' = "none"
              /\ UNCHANGED <<pin_history, history_index, info, back_enabled,
                             forward_enabled, content_width>>
              /\ (highlighted_buttons = <<>> /\ arrow_labels = <<>>) =>
                     UNCHANGED <<highlighted_buttons, arrow_labels>>
       /\ ClearHighlights(ClearHighlights(App)) = ClearHighlights(App)
       /\ (highlighted_buttons = <<>> /\ arrow_labels = <<>>) =>
              ClearHighlights(App) = App]_vars

(* _clear_highlights right after a pin was selected, nothing highlighted. *)
C15_Witness ==
    /\ lastOp.op = "clear"
    /\ lastOp.index = history_index
    /\ history_index >= 0
    /\ CurrentEntry[1] = "pin"
    /\ info.kind = "pin"
    /\ highlighted_buttons = <<>>

(* The dataset keys with the GPIO prefix, and the others.                 *)
GpioKeys == {p \in ToSet(PinKeys) : StartsWithGPIO(p)}

OtherKeys == ToSet(PinKeys) \ GpioKeys

(* C16 as stated: the dataset built at startup has 38 entries, 30 of them *)
(* with the GPIO prefix, plus EN, VIN, three GND pins and 3V3.            *)
C16_ThirtyGpioPins ==
    lastOp.op = "init" =>
        /\ Len(PinKeys) = 38
        /\ Cardinality(GpioKeys) = 30
        /\ OtherKeys = {"EN", "VIN", "GND1", "GND2", "GND3", "3V3"}

(* C16, amended: the dataset built at startup has 38 distinct entries, 32 *)
(* of them with the GPIO prefix, plus EN, VIN, three GND pins and 3V3.    *)
C16_ThirtyTwoGpioPins ==
    lastOp.op = "init" =>
        /\ Len(PinKeys) = 38
        /\ Cardinality(ToSet(PinKeys)) = 38
        /\ Cardinality(GpioKeys) = 32
        /\ OtherKeys = {"EN", "VIN", "GND1", "GND2", "GND3", "3V3"}
        /\ \A p \in ToSet(PinKeys) : PinsGet(p) # None

(* The application just constructed, the dataset built.                   *)
C16_Witness ==
    /\ lastOp.op = "init"
    /\ pin_history = <<>>
    /\ info = Placeholder
    /\ Len(PinKeys) > 0

(* The fields of two application states that a handler's effect is       *)
(* compared on: history, index, highlights, arrows, panel and buttons.    *)
SameEffect(s, t) ==
    /\ s.pin_history = t.pin_history
    /\ s.history_index = t.history_index
    /\ s.highlighted_buttons = t.highlighted_buttons
    /\ s.arrow_labels = t.arrow_labels
    /\ s.info = t.info
    /\ s.back_enabled = t.back_enabled
    /\ s.forward_enabled = t.forward_enabled

(* C17: Ctrl+Z has the effect of the back button, Ctrl+Shift+Z the effect *)
(* of the forward button, and any other key event leaves history, index,  *)
(* highlights and panel unchanged.                                        *)
C17_KeysMatchButtons ==
    [][lastOp'.op = "key" =>
          IF lastOp'.a = "Ctrl" /\ lastOp'.b = "Z"
          THEN SameEffect(App', NavigateBack(App))
          ELSE IF lastOp'.a = "Ctrl+Shift" /\ lastOp'.b = "Z"
          THEN SameEffect(App', NavigateForward(App))
          ELSE UNCHANGED <<pin_history, history_index, highlighted_buttons,
                           arrow_labels, info, back_enabled, forward_enabled>>]_vars

(* Ctrl+Shift+Z moved forward to a category, which is highlighted.        *)
C17_Witness ==
    /\ lastOp.op = "key"
    /\ lastOp.a = "Ctrl+Shift"
    /\ lastOp.b = "Z"
    /\ history_index = lastOp.index + 1
    /\ CurrentEntry[1] = "category"
    /\ highlighted_buttons # <<>>

(* C18: whenever the history is not empty the info panel shows the       *)
(* current history entry: the detail of the pin (name, type, functions,   *)
(* note), or the category under its stored name with its members listed.  *)
C18_PanelShowsCurrentEntry ==
    history_index >= 0 =>
        /\ Shows(info, CurrentEntry)
        /\ CurrentEntry[1] = "pin" =>
               /\ info.functions = PinsGet(CurrentEntry[2][1]).functions
               /\ info.note = PinsGet(CurrentEntry[2][1]).note
        /\ CurrentEntry[1] = "category" =>
               /\ info.count = Cardinality(ToSet(CategoryPins(CurrentEntry[2][1])))
               /\ Len(info.tags) = info.count

(* Forward from a pin view onto a category entry.                         *)
C18_Witness ==
    /\ lastOp.op = "forward"
    /\ history_index = lastOp.index + 1
    /\ CurrentEntry[1] = "category"
    /\ pin_history[history_index][1] = "pin"
    /\ info.kind = "category"

(* C19: show_pin_info(p) for a pin id the dataset lacks still clears the  *)
(* highlights, drops the forward entries, appends ('pin', p), moves the   *)
(* index to the tail and updates the buttons; only the panel stays as it  *)
(* was.                                                                   *)
C19_AbsentPinIsRecorded ==
    [][(lastOp'.op = "pin" /\ PinsGet(lastOp'.a) = None) =>
          /\ highlighted_buttons' = <<>>
          /\ arrow_labels' = <<>>
          /\ pin_history' =
                 SubSeq(pin_history, 1, history_index + 1) \o <<PinEntry(lastOp'.a)>>
          /\ history_index' = Len(pin_history') - 1
          /\ history_index' = history_index + 1
          /\ back_enabled' = (history_index' > 0)
          /\ ~forward_enabled'
          /\ info' = info]_vars

(* An absent pin recorded from the middle of the history while a category *)
(* was shown: the forward entries are gone, the panel still lists the     *)
(* category, nothing is highlighted.                                      *)
C19_Witness ==
    /\ lastOp.op = "pin"
    /\ lastOp.a = AbsentPin
    /\ lastOp.index < lastOp.length - 1
    /\ Len(pin_history) = lastOp.index + 2
    /\ info.kind = "category"
    /\ highlighted_buttons = <<>>

(* The pins the view of a history entry highlights: the members of a     *)
(* category entry, none for a pin entry.                                  *)
HighlightsOf(entry) ==
    IF entry[1] = "category" THEN ResolvedHighlights[entry[2][1]] ELSE <<>>

(* The application after back then forward, and after forward then back.  *)
BackThenForward == NavigateForward(NavigateBack(App))
ForwardThenBack == NavigateBack(NavigateForward(App))

(* A round trip gives back the history, the index, the highlighted pins   *)
(* and the panel of the application as it is now.                         *)
RestoresAll(rt) ==
    /\ rt.pin_history = pin_history
    /\ rt.history_index = history_index
    /\ rt.highlighted_buttons = highlighted_buttons
    /\ rt.info = info

(* A round trip gives back the history, the index, the buttons and the    *)
(* panel; the highlighted pins afterwards are those of the current        *)
(* entry, which are the ones highlighted now if any are.                  *)
RestoresView(rt) ==
    /\ rt.pin_history = pin_history
    /\ rt.history_index = history_index
    /\ rt.back_enabled = back_enabled
    /\ rt.forward_enabled = forward_enabled
    /\ rt.info = info
    /\ rt.highlighted_buttons = HighlightsOf(CurrentEntry)
    /\ highlighted_buttons # <<>> =>
           rt.highlighted_buttons = highlighted_buttons
    /\ (highlighted_buttons = <<>> /\ CurrentEntry[1] = "pin") =>
           rt.highlighted_buttons = highlighted_buttons

(* C20 as stated: from index > 0 back then forward, and from              *)
(* index < length-1 forward then back, restore the history, the index,    *)
(* the highlight set and the displayed view.                              *)
C20_RoundTripRestoresAll ==
    /\ history_index > 0 => RestoresAll(BackThenForward)
    /\ history_index < Len(pin_history) - 1 => RestoresAll(ForwardThenBack)

(* C20 amended: both round trips restore the history, the index and the   *)
(* displayed view, and leave highlighted exactly the pins of the current  *)
(* entry's view; that is the highlight set from before except when a      *)
(* press on the window had cleared the highlights of a category view.     *)
C20_RoundTripRestoresView ==
    /\ history_index > 0 => RestoresView(BackThenForward)
    /\ history_index < Len(pin_history) - 1 => RestoresView(ForwardThenBack)

(* Forward has just returned to a highlighted category in the middle of   *)
(* the history, so both round trips apply.                                *)
C20_Witness ==
    /\ lastOp.op = "forward"
    /\ history_index = lastOp.index + 1
    /\ history_index < Len(pin_history) - 1
    /\ CurrentEntry[1] = "category"
    /\ highlighted_buttons = HighlightsOf(CurrentEntry)
    /\ BackThenForward.highlighted_buttons = highlighted_buttons

(* A press on the window cleared the highlights of the category at        *)
(* index > 0: the round trip highlights its pins again.                   *)
C20_ClearedCategory ==
    /\ lastOp.op = "mouse"
    /\ history_index > 0
    /\ CurrentEntry[1] = "category"
    /\ highlighted_buttons = <<>>
    /\ BackThenForward.highlighted_buttons # <<>>

(* The current entry's view requested again by a click.                   *)
SameViewAgain ==
    IF CurrentEntry[1] = "pin"
    THEN ShowPinInfo(App, CurrentEntry[2][1], FALSE)
    ELSE ShowCategoryPins(App, CurrentEntry[2][1], CurrentEntry[2][2], FALSE)

(* The index is at the tail of a non-empty history.                       *)
AtTail == history_index >= 0 /\ history_index = Len(pin_history) - 1

(* C21: recording does not deduplicate. Every click that records with the *)
(* index at the tail lengthens the history by exactly one entry, the one  *)
(* clicked, whether or not it equals the current entry; and in every      *)
(* state with the index at the tail, however long the history already is, *)
(* a click on the current view again appends a second, equal entry.       *)
C21_RecordViewDoesNotDeduplicate ==
    /\ [][(lastOp'.op \in {"pin", "category"}
              /\ history_index = Len(pin_history) - 1) =>
             /\ Len(pin_history') = Len(pin_history) + 1
             /\ SubSeq(pin_history', 1, Len(pin_history)) = pin_history
             /\ history_index' = history_index + 1
             /\ pin_history'[Len(pin_history')] =
                    IF lastOp'.op = "pin"
                    THEN PinEntry(lastOp'.a)
                    ELSE CategoryEntry(lastOp'.a, lastOp'.b)]_vars
    /\ [](AtTail =>
             LET again == SameViewAgain.pin_history
             IN  /\ Len(again) = Len(pin_history) + 1
                 /\ again[Len(again)] = CurrentEntry
                 /\ again[Len(again) - 1] = CurrentEntry)

(* The current view was clicked again at the tail: the history ends with  *)
(* two equal entries and is one longer than when the click arrived.       *)
C21_Witness ==
    /\ lastOp.op \in {"pin", "category"}
    /\ lastOp.index = lastOp.length - 1
    /\ lastOp.length >= 1
    /\ Len(pin_history) = lastOp.length + 1
    /\ pin_history[Len(pin_history)] = pin_history[Len(pin_history) - 1]

====
